---- MODULE Spec2Model ----
(***************************************************************************)
(* libcryptoplus: the cipher_context adapter over the native EVP cipher    *)
(* context (include/cryptoplus/cipher/cipher_context.hpp), the main() of   *)
(* the two sample programs (samples/dh/dh.cpp, samples/pkey/pkey.cpp) and  *)
(* their pem_passphrase_callback.                                          *)
(*                                                                         *)
(* Three specifications share the module:                                  *)
(*   Spec          one cipher_context object and every call on it          *)
(*   SpecSamples   main() of dh.cpp and of pkey.cpp, statement by statement*)
(*   SpecCallback  pem_passphrase_callback on bounded inputs               *)
(***************************************************************************)
EXTENDS Integers, Sequences, FiniteSets, TLC

VARIABLES
    life,       \* lifetime of the wrapper object: none, live, destroyed, crashed
    nInit,      \* calls of EVP_CIPHER_CTX_init on m_ctx
    nCleanup,   \* calls of EVP_CIPHER_CTX_cleanup on m_ctx
    m_ctx,      \* the EVP_CIPHER_CTX member, the only data member of the class
    state,      \* stream state: Empty, Initialized, Streaming, Finalized, Failed
    last,       \* the last call made on the object and what came of it
    hist,       \* history of the current stream
    prog,       \* sample program being run: dh or pkey
    pc,         \* statement of main() about to run
    sp,         \* the boost::shared_ptr<FILE> locals of main()
    files,      \* per FILE handle: file name, mode, open, times closed
    ev,         \* what the run of main() did to its files
    cb          \* one activation of pem_passphrase_callback

ctxVars == <<life, nInit, nCleanup, m_ctx, state, last, hist>>
mainVars == <<prog, pc, sp, files, ev>>
cbVars == <<cb>>
vars == <<life, nInit, nCleanup, m_ctx, state, last, hist, prog, pc, sp, files, ev, cb>>

----------------------------------------------------------------------------
(* Bounds of the model.                                                    *)

\* block size, in bytes, of the two model algorithms
BlockSize == 2
\* largest in_len passed to one update call
MaxIn == 3
\* most bytes passed to update within one stream
MaxTotal == 4
\* largest key length a caller asks for, and largest key buffer it passes
MaxKeyLen == 3
\* default key length of both model algorithms
DefaultKeyLen == 2
\* longest line typed at a passphrase prompt
MaxPassLen == 3
\* largest buf_len the PEM routines hand to the passphrase callback
MaxBufLen == 2

----------------------------------------------------------------------------
(* cipher_direction                                                        *)

unchanged == -1
decrypt == 0
encrypt == 1

(* cipher_algorithm: the immutable descriptors of the native registry.     *)
(* FIXED has a fixed key length, VAR a variable one.                       *)
NoCipher == "none"
Algorithms == {"FIXED", "VAR"}
alg_key_length(a) == DefaultKeyLen
alg_block_size(a) == BlockSize
alg_variable(a) == a = "VAR"

Errors == {"CryptoError", "PaddingError", "ContractViolation"}
Usable == {"Initialized", "Streaming"}

(* error::throw_error_if_not: a native return of 0 becomes an exception.   *)
throw_error_if_not(ret) == IF ret = 1 THEN "ok" ELSE "CryptoError"

NativeOf(ret) == IF ret = 1 THEN "ok" ELSE "fail"

(* The context as EVP_CIPHER_CTX_init leaves it: no cipher bound.          *)
ZeroCtx == [cipher |-> NoCipher, encrypt |-> 0, key_len |-> 0,
            padding |-> TRUE, buf_len |-> 0, final_used |-> FALSE]

NoCall == [op |-> "none", pre |-> "Empty", result |-> "ok", native |-> "none",
           arg |-> 0, arg2 |-> 0, ret |-> 0, finBefore |-> FALSE,
           alg |-> NoCipher]

NoHist == [total |-> 0, padReq |-> TRUE, fin |-> FALSE, setLen |-> 0,
           badUse |-> FALSE, reinit |-> FALSE]

Call(op, result, native, arg, arg2, ret) ==
    [op |-> op, pre |-> state, result |-> result, native |-> native,
     arg |-> arg, arg2 |-> arg2, ret |-> ret, finBefore |-> hist.fin,
     alg |-> m_ctx.cipher]

(* A native call made on the handle outside its init..cleanup window.      *)
Touch(h) == [h EXCEPT !.badUse = h.badUse \/ ~(nInit = 1 /\ nCleanup = 0)]

----------------------------------------------------------------------------
(* The native layer, as the adapter's capability interface describes it.   *)

(* context set-padding(bool): records the flag; it cannot fail.            *)
EVP_CIPHER_CTX_set_padding(c, pad) == [c EXCEPT !.padding = pad]

(* context get key length                                                  *)
EVP_CIPHER_CTX_key_length(c) == c.key_len

(* context set key length: the length in use is accepted as it is; any     *)
(* other one only by a variable key length cipher, and only when positive. *)
EVP_CIPHER_CTX_set_key_length(c, keylen) ==
    IF c.key_len = keylen THEN [ret |-> 1, ctx |-> c]
    ELSE IF keylen > 0 /\ alg_variable(c.cipher)
         THEN [ret |-> 1, ctx |-> [c EXCEPT !.key_len = keylen]]
         ELSE [ret |-> 0, ctx |-> c]

(* The key length a context init with algorithm a reads from the key       *)
(* pointer: the configured length when a is the bound algorithm, the       *)
(* algorithm's own otherwise.                                              *)
KeyBytesRead(c, a) == IF c.cipher = a THEN c.key_len ELSE alg_key_length(a)

(* context init: binds algorithm and direction, PKCS padding on again,     *)
(* nothing buffered.                                                       *)
EVP_CipherInit_ex(c, a, dir) ==
    [cipher |-> a,
     encrypt |-> IF dir = unchanged THEN c.encrypt ELSE dir,
     key_len |-> KeyBytesRead(c, a),
     padding |-> TRUE, buf_len |-> 0, final_used |-> FALSE]

(* context update(input bytes): whole blocks go out, the rest is buffered; *)
(* a padded decryption holds its last whole block back for the final call. *)
EVP_CipherUpdate(c, n) ==
    LET bs == alg_block_size(c.cipher)
        held == IF c.final_used THEN bs ELSE 0
        tot == c.buf_len + n
        whole == (tot \div bs) * bs
        rest == tot % bs
        hold == c.encrypt = decrypt /\ c.padding /\ rest = 0 /\ whole > 0
    IN  IF n = 0 THEN [out |-> 0, ctx |-> c]
        ELSE IF c.encrypt = decrypt /\ c.padding
        THEN [out |-> held + (IF hold THEN whole - bs ELSE whole),
              ctx |-> [c EXCEPT !.buf_len = rest, !.final_used = hold]]
        ELSE [out |-> whole, ctx |-> [c EXCEPT !.buf_len = rest]]

(* context finalize: (output bytes, ok / padding check failed / error).    *)
(* damage is what the environment did to the data: good, corrupt (the last *)
(* block does not end in valid padding) or internal (the library fails);   *)
(* pad is the padding count a valid last block carries.                    *)
EVP_CipherFinal_ex(c, damage, pad) ==
    LET bs == alg_block_size(c.cipher)
    IN  IF damage = "internal" THEN [res |-> "fail", out |-> 0]
        ELSE IF ~c.padding
        THEN IF c.buf_len # 0 THEN [res |-> "fail", out |-> 0]
             ELSE [res |-> "ok", out |-> 0]
        ELSE IF c.encrypt = encrypt THEN [res |-> "ok", out |-> bs]
        ELSE IF c.buf_len # 0 \/ ~c.final_used THEN [res |-> "fail", out |-> 0]
        ELSE IF damage = "corrupt" THEN [res |-> "padfail", out |-> 0]
        ELSE [res |-> "ok", out |-> bs - pad]

----------------------------------------------------------------------------
(* The adapter.                                                            *)

(* What every call on the object leaves behind.                            *)
Finish(call, ctx2, state2, hist2) ==
    /\ last' = call
    /\ m_ctx' = ctx2
    /\ state' = state2
    /\ hist' = hist2
    /\ life' = IF call.result = "crash" THEN "crashed" ELSE life
    /\ UNCHANGED <<nInit, nCleanup, mainVars, cbVars>>

(* cipher_context::cipher_context()                                        *)
cipher_context ==
    /\ life = "none"
    /\ life' = "live"
    /\ nInit' = nInit + 1
    /\ m_ctx' = ZeroCtx
    /\ state' = "Empty"
    /\ UNCHANGED <<nCleanup, last, hist, mainVars, cbVars>>

(* A destructor that leaves the native context as it is.                   *)
destroy_without_cleanup ==
    /\ life = "live"
    /\ life' = "destroyed"
    /\ UNCHANGED <<nInit, nCleanup, m_ctx, state, last, hist, mainVars, cbVars>>

(* cipher_context::~cipher_context(): runs when the owner's scope ends,    *)
(* by a normal exit or while an exception unwinds it.                      *)
destroy_cipher_context ==
    /\ life = "live"
    /\ life' = "destroyed"
    /\ nCleanup' = nCleanup + 1
    /\ UNCHANGED <<nInit, m_ctx, state, last, hist, mainVars, cbVars>>

(* set_padding that loses its argument on the way to the native call.      *)
set_padding_lost(enabled) ==
    /\ life = "live"
    /\ Finish(Call("set_padding", "ok", "ok", IF enabled THEN 1 ELSE 0, 0, 0),
              EVP_CIPHER_CTX_set_padding(m_ctx, TRUE), state,
              [Touch(hist) EXCEPT !.padReq = enabled])

(* cipher_context::set_padding(bool enabled)                               *)
set_padding(enabled) ==
    /\ life = "live"
    /\ Finish(Call("set_padding", "ok", "ok", IF enabled THEN 1 ELSE 0, 0, 0),
              EVP_CIPHER_CTX_set_padding(m_ctx, enabled), state,
              [Touch(hist) EXCEPT !.padReq = enabled])

(* key_length that answers with the algorithm's own key length.            *)
key_length_of_algorithm ==
    /\ life = "live"
    /\ Finish(Call("key_length", "ok", "ok", 0, 0, alg_key_length(m_ctx.cipher)),
              m_ctx, state, Touch(hist))

(* cipher_context::key_length() const                                      *)
key_length ==
    /\ life = "live"
    /\ Finish(Call("key_length", "ok", "ok", 0, 0, EVP_CIPHER_CTX_key_length(m_ctx)),
              m_ctx, state, Touch(hist))

(* set_key_length that drops the native return value.                      *)
set_key_length_unchecked(len, ub) ==
    /\ life = "live"
    /\ IF m_ctx.cipher = NoCipher
       THEN Finish(Call("set_key_length", IF ub = "crash" THEN "crash" ELSE "ok",
                        ub, len, m_ctx.key_len, 0),
                   m_ctx, state, Touch(hist))
       ELSE LET r == EVP_CIPHER_CTX_set_key_length(m_ctx, len)
            IN  Finish(Call("set_key_length", "ok", NativeOf(r.ret), len, m_ctx.key_len, 0),
                       r.ctx, state,
                       [Touch(hist) EXCEPT !.setLen = IF r.ret = 1 THEN len ELSE @])

(* cipher_context::set_key_length(size_t len). With no cipher bound the    *)
(* native call reads through a null cipher pointer: ub is what comes of it.*)
set_key_length(len, ub) ==
    /\ life = "live"
    /\ IF m_ctx.cipher = NoCipher
       THEN Finish(Call("set_key_length",
                        IF ub = "crash" THEN "crash"
                        ELSE throw_error_if_not(IF ub = "ok" THEN 1 ELSE 0),
                        ub, len, m_ctx.key_len, 0),
                   m_ctx, state, Touch(hist))
       ELSE LET r == EVP_CIPHER_CTX_set_key_length(m_ctx, len)
            IN  Finish(Call("set_key_length", throw_error_if_not(r.ret),
                            NativeOf(r.ret), len, m_ctx.key_len, 0),
                       r.ctx, state,
                       [Touch(hist) EXCEPT !.setLen = IF r.ret = 1 THEN len ELSE @])

(* cipher_context::ctrl_get(int type, T& value): nret is the native        *)
(* control call's return for this type.                                    *)
ctrl_get(nret) ==
    /\ life = "live"
    /\ Finish(Call("ctrl_get", throw_error_if_not(nret), NativeOf(nret), 0, 0, 0),
              m_ctx, state, Touch(hist))

(* ctrl_set that drops the native return value.                            *)
ctrl_set_unchecked(nret) ==
    /\ life = "live"
    /\ Finish(Call("ctrl_set", "ok", NativeOf(nret), 0, 0, 0),
              m_ctx, state, Touch(hist))

(* cipher_context::ctrl_set(int type, int value)                           *)
ctrl_set(nret) ==
    /\ life = "live"
    /\ Finish(Call("ctrl_set", throw_error_if_not(nret), NativeOf(nret), 0, 0, 0),
              m_ctx, state, Touch(hist))

(* cipher_context::algorithm() const: undefined before any initialize.     *)
algorithm(ub) ==
    /\ life = "live"
    /\ ub = "crash" => m_ctx.cipher = NoCipher
    /\ Finish(Call("algorithm", IF ub = "crash" THEN "crash" ELSE "ok", ub, 0, 0, 0),
              m_ctx, state, Touch(hist))

(* cipher_context::initialize(algorithm, direction, key, iv, impl). The    *)
(* key is a bare pointer: keyBytes, the size of the buffer behind it, is   *)
(* known to the caller alone. env is the native init's answer; reading a   *)
(* buffer shorter than the key length is an over-read, which may also end  *)
(* the process.                                                            *)
initialize(alg, dir, keyBytes, env) ==
    LET need == KeyBytesRead(m_ctx, alg)
        h == [Touch(hist) EXCEPT !.fin = FALSE]
    IN  /\ life = "live"
        /\ env = "crash" => keyBytes < need
        /\ IF env = "ok"
           THEN Finish([Call("initialize", "ok", "ok", keyBytes, need, hist.setLen)
                           EXCEPT !.alg = alg],
                       EVP_CipherInit_ex(m_ctx, alg, dir), "Initialized",
                       [h EXCEPT !.total = 0, !.padReq = TRUE,
                                 !.setLen = 0,
                                 !.reinit = (state = "Finalized")])
           ELSE Finish([Call("initialize",
                             IF env = "crash" THEN "crash" ELSE throw_error_if_not(0),
                             env, keyBytes, need, hist.setLen) EXCEPT !.alg = alg],
                       m_ctx, IF state = "Empty" THEN "Empty" ELSE "Failed", h)

(* cipher_context::update(out, out_len, in, in_len): nret is the native    *)
(* update's return.                                                        *)
update(in_len, nret) ==
    /\ life = "live"
    /\ IF state \notin Usable
       THEN Finish(Call("update", "ContractViolation", "none", in_len, 0, 0),
                   m_ctx, state, hist)
       ELSE IF nret = 0
       THEN Finish(Call("update", throw_error_if_not(0), "fail", in_len, 0, 0),
                   m_ctx, "Failed", Touch(hist))
       ELSE /\ hist.total + in_len <= MaxTotal
            /\ LET r == EVP_CipherUpdate(m_ctx, in_len)
               IN  Finish(Call("update", "ok", "ok", in_len, 0, r.out),
                          r.ctx, "Streaming",
                          [Touch(hist) EXCEPT !.total = @ + in_len])

(* finalize that hands every call to the native layer, whatever the state. *)
finalize_any_state(damage, pad) ==
    /\ life = "live"
    /\ LET r == EVP_CipherFinal_ex(m_ctx, damage, pad)
           h == [Touch(hist) EXCEPT !.fin = TRUE]
       IN  IF r.res = "ok"
           THEN Finish(Call("finalize", "ok", "ok", 0, 0, r.out), m_ctx, "Finalized", h)
           ELSE IF r.res = "padfail"
           THEN Finish(Call("finalize", "PaddingError", "padfail", 0, 0, 0),
                       m_ctx, "Failed", h)
           ELSE Finish(Call("finalize", "CryptoError", "fail", 0, 0, 0),
                       m_ctx, "Failed", h)

(* finalize that reports a failed padding check as zero bytes written.     *)
finalize_zero_on_padfail(damage, pad) ==
    /\ life = "live"
    /\ IF state \notin Usable
       THEN Finish(Call("finalize", "ContractViolation", "none", 0, 0, 0),
                   m_ctx, state, [hist EXCEPT !.fin = TRUE])
       ELSE LET r == EVP_CipherFinal_ex(m_ctx, damage, pad)
                h == [Touch(hist) EXCEPT !.fin = TRUE]
            IN  IF r.res \in {"ok", "padfail"}
                THEN Finish(Call("finalize", "ok", r.res, 0, 0, r.out),
                            m_ctx, "Finalized", h)
                ELSE Finish(Call("finalize", "CryptoError", "fail", 0, 0, 0),
                            m_ctx, "Failed", h)

(* cipher_context::finalize(out, out_len)                                  *)
finalize(damage, pad) ==
    /\ life = "live"
    /\ IF state \notin Usable
       THEN Finish(Call("finalize", "ContractViolation", "none", 0, 0, 0),
                   m_ctx, state, [hist EXCEPT !.fin = TRUE])
       ELSE LET r == EVP_CipherFinal_ex(m_ctx, damage, pad)
                h == [Touch(hist) EXCEPT !.fin = TRUE]
            IN  IF r.res = "ok"
                THEN Finish(Call("finalize", "ok", "ok", 0, 0, r.out),
                            m_ctx, "Finalized", h)
                ELSE IF r.res = "padfail"
                THEN Finish(Call("finalize", "PaddingError", "padfail", 0, 0, 0),
                            m_ctx, "Failed", h)
                ELSE Finish(Call("finalize", "CryptoError", "fail", 0, 0, 0),
                            m_ctx, "Failed", h)

----------------------------------------------------------------------------
(* Placeholders for the state of the other two specifications.             *)

NoCb == [pc |-> "idle"]

CtxInit ==
    /\ life = "none"
    /\ nInit = 0
    /\ nCleanup = 0
    /\ m_ctx = ZeroCtx
    /\ state = "Empty"
    /\ last = NoCall
    /\ hist = NoHist

Init ==
    /\ CtxInit
    /\ prog = "none" /\ pc = "idle" /\ sp = <<>> /\ files = <<>> /\ ev = <<>>
    /\ cb = NoCb

Next ==
    \/ cipher_context
    \/ destroy_cipher_context
    \/ \E alg \in Algorithms, dir \in {unchanged, decrypt, encrypt},
          keyBytes \in 1..MaxKeyLen, env \in {"ok", "fail", "crash"} :
            initialize(alg, dir, keyBytes, env)
    \/ \E enabled \in BOOLEAN : set_padding(enabled)
    \/ key_length
    \/ \E len \in 0..MaxKeyLen, ub \in {"ok", "fail", "crash"} : set_key_length(len, ub)
    \/ \E nret \in {0, 1} : ctrl_get(nret)
    \/ \E nret \in {0, 1} : ctrl_set(nret)
    \/ \E in_len \in 0..MaxIn, nret \in {0, 1} : update(in_len, nret)
    \/ \E damage \in {"good", "corrupt", "internal"}, pad \in 1..BlockSize :
            finalize(damage, pad)
    \/ \E ub \in {"ok", "crash"} : algorithm(ub)

Spec == Init /\ [][Next]_vars

----------------------------------------------------------------------------
(* Properties of the cipher context, checked under Spec.                   *)

InlineOps == {"set_padding", "key_length", "set_key_length", "ctrl_get",
              "ctrl_set", "algorithm"}
StreamOps == {"update", "finalize"}

C3_HandleScopedToObject ==
    /\ life = "none" => (nInit = 0 /\ nCleanup = 0)
    /\ life \in {"live", "crashed"} => (nInit = 1 /\ nCleanup = 0)
    /\ life = "destroyed" => (nInit = 1 /\ nCleanup = 1)
    /\ ~hist.badUse
    /\ hist.reinit => nInit = 1

C3_Witness ==
    /\ life = "destroyed" /\ hist.reinit
    /\ last.op = "update" /\ last.result = "CryptoError"

C6_NoPaddingNeedsWholeBlocks ==
    (last.op = "finalize" /\ ~hist.padReq /\ hist.total % BlockSize # 0)
        => (last.result \in Errors /\ last.native # "ok")

C6_Witness ==
    /\ last.op = "finalize" /\ last.pre = "Streaming"
    /\ ~hist.padReq /\ hist.total % BlockSize # 0
    /\ last.result = "CryptoError"

C7_ZeroBytesWitness ==
    /\ last.op = "finalize" /\ last.result = "ok" /\ last.ret = 0
    /\ m_ctx.encrypt = decrypt /\ m_ctx.padding

----------------------------------------------------------------------------
(* pem_passphrase_callback(buf, buf_len, rwflag, userdata), the same in   *)
(* dh.cpp and in pkey.cpp, statement by statement.                         *)

Chars == {"a", "b"}
Untouched == "_"
Lines == UNION {[1..n -> Chars] : n \in 0..MaxPassLen}

(* The memory buf points to, far enough to see a write past buf_len.       *)
MemSize == MaxPassLen

(* static_cast<size_t>(int): size_t is wider than any int of the model;    *)
(* the modulus stands for its range.                                       *)
SizeModulus == 2^30
static_cast_size_t(n) == n % SizeModulus

Activation(buf_len, rwflag) ==
    [pc |-> "cb_21", buf_len |-> buf_len, rwflag |-> rwflag,
     passphrase |-> <<>>, confirmation |-> <<>>, asked |-> FALSE,
     mem |-> [i \in 1..MemSize |-> Untouched], ret |-> -1]

CbStep(cb2) == cb' = cb2 /\ UNCHANGED <<ctxVars, mainVars>>

CbReturn(value) == CbStep([cb EXCEPT !.pc = "returned", !.ret = value])

(* lines 21-23: std::getline(std::cin, passphrase) *)
cb_read_passphrase(line) ==
    /\ cb.pc = "cb_21"
    /\ CbStep([cb EXCEPT !.pc = "cb_25", !.passphrase = line])

(* lines 25-29 *)
cb_check_empty ==
    /\ cb.pc = "cb_25"
    /\ IF cb.passphrase = <<>> THEN CbReturn(0)
       ELSE CbStep([cb EXCEPT !.pc = "cb_31"])

(* The length check left out.                                              *)
cb_check_size_skipped ==
    /\ cb.pc = "cb_31"
    /\ CbStep([cb EXCEPT !.pc = "cb_37"])

(* lines 31-35 *)
cb_check_size ==
    /\ cb.pc = "cb_31"
    /\ IF Len(cb.passphrase) > static_cast_size_t(cb.buf_len) THEN CbReturn(0)
       ELSE CbStep([cb EXCEPT !.pc = "cb_37"])

(* line 37 *)
cb_check_rwflag ==
    /\ cb.pc = "cb_37"
    /\ CbStep([cb EXCEPT !.pc = IF cb.rwflag # 0 THEN "cb_39" ELSE "cb_50"])

(* lines 39-47: std::getline(std::cin, passphrase_confirmation) *)
cb_read_confirmation(line) ==
    /\ cb.pc = "cb_39"
    /\ IF line # cb.passphrase
       THEN CbStep([cb EXCEPT !.pc = "returned", !.ret = 0,
                              !.asked = TRUE, !.confirmation = line])
       ELSE CbStep([cb EXCEPT !.pc = "cb_50", !.asked = TRUE, !.confirmation = line])

(* lines 50-51: std::copy(passphrase.begin(), passphrase.end(), buf) *)
cb_copy_and_return ==
    /\ cb.pc = "cb_50"
    /\ CbStep([cb EXCEPT !.pc = "returned", !.ret = Len(cb.passphrase),
                         !.mem = [i \in 1..MemSize |->
                                    IF i <= Len(cb.passphrase)
                                    THEN cb.passphrase[i] ELSE cb.mem[i]]])

CallbackSteps ==
    \/ \E line \in Lines : cb_read_passphrase(line)
    \/ cb_check_empty
    \/ cb_check_size
    \/ cb_check_rwflag
    \/ \E line \in Lines : cb_read_confirmation(line)
    \/ cb_copy_and_return

CallbackInit ==
    /\ CtxInit
    /\ prog = "none" /\ pc = "idle" /\ sp = <<>> /\ files = <<>> /\ ev = <<>>
    /\ \E buf_len \in 0..MaxBufLen, rwflag \in {0, 1} : cb = Activation(buf_len, rwflag)

SpecCallback == CallbackInit /\ [][CallbackSteps]_vars

\* C10: pem_passphrase_callback returns 0 and leaves buf as it was when the
\* passphrase is empty, longer than buf_len, or (rwflag # 0) different from
\* the confirmation; otherwise it writes the passphrase's bytes, and no
\* other byte, to buf and returns their count n, 1 <= n <= buf_len. The
\* confirmation is asked for only when rwflag # 0, after both length checks.
C10_PassphraseCallback ==
    LET n == Len(cb.passphrase)
        lengthBad == n = 0 \/ n > cb.buf_len
        bad == lengthBad \/ (cb.rwflag # 0 /\ cb.confirmation # cb.passphrase)
    IN  /\ cb.pc \notin {"idle", "cb_21"} /\ cb.asked => (cb.rwflag # 0 /\ ~lengthBad)
        /\ cb.pc # "returned" /\ cb.pc # "idle"
                => \A i \in 1..MemSize : cb.mem[i] = Untouched
        /\ cb.pc = "returned"
                => /\ bad => (cb.ret = 0 /\ \A i \in 1..MemSize : cb.mem[i] = Untouched)
                   /\ ~bad => /\ cb.ret = n /\ 1 <= n /\ n <= cb.buf_len
                              /\ \A i \in 1..MemSize :
                                    cb.mem[i] = IF i <= n THEN cb.passphrase[i]
                                                ELSE Untouched
                   /\ (cb.rwflag # 0 /\ ~lengthBad) => cb.asked

C10_Witness ==
    /\ cb.pc = "returned" /\ cb.rwflag # 0 /\ cb.asked
    /\ cb.ret = cb.buf_len /\ cb.ret = 2

C10_RejectedWitness ==
    /\ cb.pc = "returned" /\ Len(cb.passphrase) > cb.buf_len /\ cb.ret = 0

----------------------------------------------------------------------------
(* The sample programs: main() of dh.cpp and of pkey.cpp.                  *)

(* <cstdio>, and boost::shared_ptr<FILE> built from (pointer, fclose): the *)
(* pointer 0 is NULL, any other one indexes files. A shared_ptr built from *)
(* a pointer and a deleter owns that pointer, null or not, and calls the   *)
(* deleter on it when the last owner lets go.                              *)
World == [files |-> files, ev |-> ev]
EmptyPtr == [ptr |-> 0, owns |-> FALSE]
NoEvents == [nullCloses |-> 0, reopenedOpen |-> FALSE, readUnclosed |-> FALSE,
             exit |-> "running"]

WriteOpen(fs, name) ==
    \E h \in DOMAIN fs : fs[h].name = name /\ fs[h].mode = "w" /\ fs[h].open

(* fopen(name, mode): ok says whether the file could be opened.            *)
fopen(w, name, mode, ok) ==
    IF ok
    THEN [ptr |-> Len(w.files) + 1,
          files |-> Append(w.files, [name |-> name, mode |-> mode,
                                     open |-> TRUE, closes |-> 0]),
          ev |-> [w.ev EXCEPT !.reopenedOpen =
                                 @ \/ (mode = "r" /\ WriteOpen(w.files, name))]]
    ELSE [ptr |-> 0, files |-> w.files, ev |-> w.ev]

(* fclose(stream)                                                          *)
fclose(w, h) ==
    IF h = 0
    THEN [files |-> w.files, ev |-> [w.ev EXCEPT !.nullCloses = @ + 1]]
    ELSE [files |-> [w.files EXCEPT ![h].open = FALSE, ![h].closes = @ + 1],
          ev |-> w.ev]

(* A shared_ptr<FILE> gives up what it owns: its destructor, reset().      *)
release(w, s) == IF s.owns THEN fclose(w, s.ptr) ELSE w

(* A library call that reads the file behind a handle.                     *)
ReadBack(e, fs, h) ==
    [e EXCEPT !.readUnclosed = @ \/ WriteOpen(fs, fs[h].name)]

(* One statement of main(): fclose(NULL) may end the process on the spot.  *)
Step(next, sp2, w2, crash) ==
    /\ cb.pc \in {"idle", "returned"}
    /\ crash => w2.ev.nullCloses > ev.nullCloses
    /\ pc' = IF crash THEN "crashed" ELSE next
    /\ sp' = sp2
    /\ files' = w2.files
    /\ ev' = w2.ev
    /\ cb' = NoCb
    /\ UNCHANGED <<prog, ctxVars>>

Goto(next) == Step(next, sp, World, FALSE)

FirstDestructor ==
    IF prog = "pkey" THEN "destroy_certificate_public_key_file"
    ELSE "destroy_parameters_file"

(* return EXIT_FAILURE / EXIT_SUCCESS: the locals are destroyed next, in   *)
(* reverse order of their declaration.                                     *)
Return(code) == Step(FirstDestructor, sp, [World EXCEPT !.ev.exit = code], FALSE)

(* A PEM routine that was given pem_passphrase_callback: it throws, or     *)
(* finishes without a passphrase, or asks for one with a buffer of buf_len *)
(* bytes; main() goes on at resume when the callback has returned.         *)
PemCall(how, buf_len, rwflag, w2, resume, done, catch) ==
    /\ cb.pc = "idle"
    /\ pc' = CASE how = "throws" -> catch
               [] how = "done" -> done
               [] OTHER -> resume
    /\ cb' = IF how = "asks" THEN Activation(buf_len, rwflag) ELSE cb
    /\ files' = w2.files
    /\ ev' = w2.ev
    /\ UNCHANGED <<prog, sp, ctxVars>>

(* The PEM routine after the callback returned: no passphrase (0) makes it *)
(* throw; with one it may still throw.                                     *)
PemResume(throws, done, catch) ==
    /\ cb.pc = "returned"
    /\ cb.ret = 0 => throws
    /\ Goto(IF throws THEN catch ELSE done)

(* dh.cpp line 71 *)
dh_open_parameters_file(ok) ==
    /\ prog = "dh" /\ pc = "dh_71"
    /\ LET f == fopen(World, "parameters.pem", "w", ok)
       IN  Step("dh_73", [sp EXCEPT !.p1 = [ptr |-> f.ptr, owns |-> TRUE]],
                [files |-> f.files, ev |-> f.ev], FALSE)

(* dh.cpp lines 73-78 *)
dh_check_parameters_file ==
    /\ prog = "dh" /\ pc = "dh_73"
    /\ IF sp.p1.ptr = 0 THEN Return("failure") ELSE Goto("dh_84")

(* dh.cpp lines 84-109: generate_parameters or check throws, or the codes  *)
(* are bad, or all is well.                                                *)
dh_generate_parameters(outcome) ==
    /\ prog = "dh" /\ pc = "dh_84"
    /\ CASE outcome = "ok" -> Goto("dh_111")
         [] outcome = "throws" -> Goto("dh_157")
         [] OTHER -> Return("failure")

(* dh.cpp line 111 *)
dh_write_parameters(throws) ==
    /\ prog = "dh" /\ pc = "dh_111"
    /\ Goto(IF throws THEN "dh_157" ELSE "dh_118")

(* dh.cpp line 118 *)
dh_generate_key(throws) ==
    /\ prog = "dh" /\ pc = "dh_118"
    /\ Goto(IF throws THEN "dh_157" ELSE "dh_122")

(* dh.cpp line 122: the arguments of reset are evaluated, fopen included,  *)
(* before reset lets go of the handle opened for writing.                  *)
dh_reopen_parameters_file(ok, crash) ==
    /\ prog = "dh" /\ pc = "dh_122"
    /\ LET f == fopen(World, "parameters.pem", "r", ok)
           w == release([files |-> f.files, ev |-> f.ev], sp.p1)
       IN  Step("dh_124", [sp EXCEPT !.p1 = [ptr |-> f.ptr, owns |-> TRUE]], w, crash)

(* dh.cpp lines 124-129 *)
dh_check_reopened ==
    /\ prog = "dh" /\ pc = "dh_124"
    /\ IF sp.p1.ptr = 0 THEN Return("failure") ELSE Goto("dh_133")

(* dh.cpp line 133 *)
dh_from_parameters(how, buf_len) ==
    /\ prog = "dh" /\ pc = "dh_133"
    /\ PemCall(how, buf_len, 0, [World EXCEPT !.ev = ReadBack(ev, files, sp.p1.ptr)],
               "dh_133_asked", "dh_139", "dh_157")

dh_from_parameters_resume(throws) ==
    /\ prog = "dh" /\ pc = "dh_133_asked"
    /\ PemResume(throws, "dh_139", "dh_157")

(* dh.cpp lines 139-155 *)
dh_compute_keys(throws) ==
    /\ prog = "dh" /\ pc = "dh_139"
    /\ IF throws THEN Goto("dh_157") ELSE Return("success")

(* dh.cpp lines 157-162 *)
dh_catch ==
    /\ prog = "dh" /\ pc = "dh_157"
    /\ Return("failure")

(* pkey.cpp line 67 *)
pkey_open_private_key_file(ok) ==
    /\ prog = "pkey" /\ pc = "pkey_67"
    /\ LET f == fopen(World, "private_key.pem", "w", ok)
       IN  Step("pkey_68", [sp EXCEPT !.p1 = [ptr |-> f.ptr, owns |-> TRUE]],
                [files |-> f.files, ev |-> f.ev], FALSE)

(* pkey.cpp line 68 *)
pkey_open_certificate_public_key_file(ok) ==
    /\ prog = "pkey" /\ pc = "pkey_68"
    /\ LET f == fopen(World, "certificate_public_key.pem", "w", ok)
       IN  Step("pkey_70", [sp EXCEPT !.p2 = [ptr |-> f.ptr, owns |-> TRUE]],
                [files |-> f.files, ev |-> f.ev], FALSE)

(* pkey.cpp lines 70-75 *)
pkey_check_private_key_file ==
    /\ prog = "pkey" /\ pc = "pkey_70"
    /\ IF sp.p1.ptr = 0 THEN Return("failure") ELSE Goto("pkey_77")

(* pkey.cpp lines 77-82 *)
pkey_check_certificate_public_key_file ==
    /\ prog = "pkey" /\ pc = "pkey_77"
    /\ IF sp.p2.ptr = 0 THEN Return("failure") ELSE Goto("pkey_88")

(* pkey.cpp lines 88-96 *)
pkey_generate_private_key(throws) ==
    /\ prog = "pkey" /\ pc = "pkey_88"
    /\ Goto(IF throws THEN "pkey_106" ELSE "pkey_98")

(* pkey.cpp line 98 *)
pkey_write_private_key(how, buf_len) ==
    /\ prog = "pkey" /\ pc = "pkey_98"
    /\ PemCall(how, buf_len, 1, World, "pkey_98_asked", "pkey_102", "pkey_106")

pkey_write_private_key_resume(throws) ==
    /\ prog = "pkey" /\ pc = "pkey_98_asked"
    /\ PemResume(throws, "pkey_102", "pkey_106")

(* pkey.cpp line 102 *)
pkey_write_certificate_public_key(throws) ==
    /\ prog = "pkey" /\ pc = "pkey_102"
    /\ Goto(IF throws THEN "pkey_106" ELSE "pkey_113")

(* pkey.cpp lines 106-111 *)
pkey_catch_write ==
    /\ prog = "pkey" /\ pc = "pkey_106"
    /\ Return("failure")

(* pkey.cpp line 113 *)
pkey_reset_certificate_public_key_file(crash) ==
    /\ prog = "pkey" /\ pc = "pkey_113"
    /\ Step("pkey_114", [sp EXCEPT !.p2 = EmptyPtr], release(World, sp.p2), crash)

(* pkey.cpp line 114: fopen first, then the old handle is let go.          *)
pkey_reopen_private_key_file(ok, crash) ==
    /\ prog = "pkey" /\ pc = "pkey_114"
    /\ LET f == fopen(World, "private_key.pem", "r", ok)
           w == release([files |-> f.files, ev |-> f.ev], sp.p1)
       IN  Step("pkey_116", [sp EXCEPT !.p1 = [ptr |-> f.ptr, owns |-> TRUE]], w, crash)

(* pkey.cpp lines 116-121 *)
pkey_check_reopened ==
    /\ prog = "pkey" /\ pc = "pkey_116"
    /\ IF sp.p1.ptr = 0 THEN Return("failure") ELSE Goto("pkey_127")

(* pkey.cpp line 127 *)
pkey_from_private_key(how, buf_len) ==
    /\ prog = "pkey" /\ pc = "pkey_127"
    /\ PemCall(how, buf_len, 0, [World EXCEPT !.ev = ReadBack(ev, files, sp.p1.ptr)],
               "pkey_127_asked", "pkey_138", "pkey_131")

pkey_from_private_key_resume(throws) ==
    /\ prog = "pkey" /\ pc = "pkey_127_asked"
    /\ PemResume(throws, "pkey_138", "pkey_131")

(* pkey.cpp lines 131-136 *)
pkey_catch_read ==
    /\ prog = "pkey" /\ pc = "pkey_131"
    /\ Return("failure")

(* pkey.cpp line 138 *)
pkey_return_success ==
    /\ prog = "pkey" /\ pc = "pkey_138"
    /\ Return("success")

(* ~shared_ptr of certificate_public_key_file (pkey.cpp line 68), the      *)
(* local declared last.                                                    *)
destroy_certificate_public_key_file(crash) ==
    /\ pc = "destroy_certificate_public_key_file"
    /\ Step("destroy_private_key_file", [sp EXCEPT !.p2 = EmptyPtr],
            release(World, sp.p2), crash)

(* ~shared_ptr of private_key_file (pkey.cpp line 67)                      *)
destroy_private_key_file(crash) ==
    /\ pc = "destroy_private_key_file"
    /\ Step("done", [sp EXCEPT !.p1 = EmptyPtr], release(World, sp.p1), crash)

(* ~shared_ptr of parameters_file (dh.cpp line 71)                         *)
destroy_parameters_file(crash) ==
    /\ pc = "destroy_parameters_file"
    /\ Step("done", [sp EXCEPT !.p1 = EmptyPtr], release(World, sp.p1), crash)

SamplesInit ==
    /\ CtxInit
    /\ cb = NoCb
    /\ prog \in {"dh", "pkey"}
    /\ pc = IF prog = "dh" THEN "dh_71" ELSE "pkey_67"
    /\ sp = [p1 |-> EmptyPtr, p2 |-> EmptyPtr]
    /\ files = <<>>
    /\ ev = NoEvents

PemHow == {"throws", "done", "asks"}

SamplesNext ==
    \/ \E ok \in BOOLEAN : dh_open_parameters_file(ok)
    \/ dh_check_parameters_file
    \/ \E outcome \in {"ok", "throws", "bad_codes"} : dh_generate_parameters(outcome)
    \/ \E throws \in BOOLEAN : dh_write_parameters(throws)
    \/ \E throws \in BOOLEAN : dh_generate_key(throws)
    \/ \E ok \in BOOLEAN, crash \in BOOLEAN : dh_reopen_parameters_file(ok, crash)
    \/ dh_check_reopened
    \/ \E how \in PemHow, buf_len \in 1..MaxBufLen : dh_from_parameters(how, buf_len)
    \/ \E throws \in BOOLEAN : dh_from_parameters_resume(throws)
    \/ \E throws \in BOOLEAN : dh_compute_keys(throws)
    \/ dh_catch
    \/ \E ok \in BOOLEAN : pkey_open_private_key_file(ok)
    \/ \E ok \in BOOLEAN : pkey_open_certificate_public_key_file(ok)
    \/ pkey_check_private_key_file
    \/ pkey_check_certificate_public_key_file
    \/ \E throws \in BOOLEAN : pkey_generate_private_key(throws)
    \/ \E how \in PemHow, buf_len \in 1..MaxBufLen : pkey_write_private_key(how, buf_len)
    \/ \E throws \in BOOLEAN : pkey_write_private_key_resume(throws)
    \/ \E throws \in BOOLEAN : pkey_write_certificate_public_key(throws)
    \/ pkey_catch_write
    \/ \E crash \in BOOLEAN : pkey_reset_certificate_public_key_file(crash)
    \/ \E ok \in BOOLEAN, crash \in BOOLEAN : pkey_reopen_private_key_file(ok, crash)
    \/ pkey_check_reopened
    \/ \E how \in PemHow, buf_len \in 1..MaxBufLen : pkey_from_private_key(how, buf_len)
    \/ \E throws \in BOOLEAN : pkey_from_private_key_resume(throws)
    \/ pkey_catch_read
    \/ pkey_return_success
    \/ \E crash \in BOOLEAN : destroy_certificate_public_key_file(crash)
    \/ \E crash \in BOOLEAN : destroy_private_key_file(crash)
    \/ \E crash \in BOOLEAN : destroy_parameters_file(crash)
    \/ CallbackSteps

SpecSamples == SamplesInit /\ [][SamplesNext]_vars

\* C9: in both sample programs, on every path, fclose is never called on a
\* null handle, no handle is closed twice, every handle fopen returned is
\* closed once main has returned, and a file the program wrote is opened
\* again and read back only after its write handle was closed.
C9_FilesClosedOnce ==
    /\ ev.nullCloses = 0
    /\ \A h \in DOMAIN files : files[h].closes <= 1
    /\ pc = "done" => \A h \in DOMAIN files : files[h].closes = 1 /\ ~files[h].open
    /\ ~ev.reopenedOpen
    /\ ~ev.readUnclosed

====
